---- MODULE Spec2Model ----
(***************************************************************************)
(* Model of the MGC3130 (Skywriter) driver of src/sky.py: the reset and    *)
(* runtime-configuration handshake, the XFER freeze/drain/release frame    *)
(* transport, the status acknowledgement wait and the frame decoder.       *)
(*                                                                         *)
(* The host is one thread of control; pc is its position.  The sensor      *)
(* chip is the environment: it posts a frame (asserting the transfer line) *)
(* whenever it has none pending and the host is not driving the line.      *)
(*                                                                         *)
(* The command loop of the sound tool, src/sounds.py, is modelled beside   *)
(* it: a separate script with its own state, which the driver never       *)
(* touches.                                                                *)
(***************************************************************************)
EXTENDS Integers, Sequences, FiniteSets, TLC

(* ---------------- identifiers and masks: sky.py 14-29 ------------------ *)
SW_SYSTEM_STATUS == 21
SW_REQUEST_MSG == 6
SW_FW_VERSION == 131
SW_SET_RUNTIME == 162
SW_SENSOR_DATA == 145

SW_DATA_DSP == 1
SW_DATA_GESTURE == 2
SW_DATA_TOUCH == 4
SW_DATA_AIRWHEEL == 8
SW_DATA_XYZ == 16

SYS_POSITION_VALID == 1
SYS_AIRWHEEL_VALID == 2

(* register addresses and lengths used on the bus *)
REG_WRITE == 16
REG_READ == 0
FRAME_LEN == 32
DEFAULT_TRIES == 10
RESET_LOW_MS == 100
RESET_WAIT_MS == 500
POLL_SLEEP_MS == 1

(* ---------------- bounds of the model ---------------------------------- *)
\* a direct call get_status_expect(cmd, tries) draws tries from 0..MaxTries
MaxTries == 2

\* the sound tool's SAVE command is drawn until this many mixes are saved
MaxSaved == 1

(* ---------------- small helpers ---------------------------------------- *)
Min(a, b) == IF a < b THEN a ELSE b

\* 2^k for k in 0..16
Pow2(k) == 2 ^ k

\* n & mask  for a one-bit mask (mask is a power of two): non-zero iff set
AndMask(n, mask) == ((n \div mask) % 2) * mask

\* Python sequences are 0-indexed: s[i]
At(s, i) == s[i + 1]

\* Python slice s[i:]
SliceFrom(s, i) == IF i >= Len(s) THEN <<>> ELSE SubSeq(s, i + 1, Len(s))

Zeros(n) == [i \in 1..n |-> 0]

TOUCH_ACTIONS ==
  << <<"doubletap", "center">>, <<"doubletap", "east">>, <<"doubletap", "north">>,
     <<"doubletap", "west">>, <<"doubletap", "south">>,
     <<"tap", "center">>, <<"tap", "east">>, <<"tap", "north">>,
     <<"tap", "west">>, <<"tap", "south">>,
     <<"touch", "center">>, <<"touch", "east">>, <<"touch", "north">>,
     <<"touch", "west">>, <<"touch", "south">> >>

GESTURES ==
  << <<"garbage", "", "">>,
     <<"flick", "west", "east">>,
     <<"flick", "east", "west">>,
     <<"flick", "south", "north">>,
     <<"flick", "north", "south">>,
     <<"circle", "clockwise", "">>,
     <<"circle", "counter-clockwise", "">> >>

u16(lsb, msb) == (msb * 256) + lsb

\* the quotient cut to four decimals instead of rounded
normalize_0_1_truncated(val_u16) == (val_u16 * 10000) \div 65536

\* round(val_u16 / 65536.0, 4), as a count of ten-thousandths.  The quotient
\* is exact in binary floating point, and round() goes to the nearest
\* multiple of 0.0001, an exact tie going to the even one.  (A build with
\* single-precision floats rounds val * 1e4 to 24 bits first and lands one
\* ten-thousandth away on 12 raw values, the largest of them 64222.)
normalize_0_1(val_u16) ==
  LET num == val_u16 * 10000
      q == num \div 65536
      r == num % 65536
  IN  IF r * 2 > 65536 THEN q + 1
      ELSE IF r * 2 < 65536 THEN q
      ELSE IF q % 2 = 0 THEN q ELSE q + 1

(* ---------------- values: optional frames, events, exceptions ---------- *)
\* None, and a bytearray b (truthy iff non-empty, as Python has it)
None == [some |-> FALSE, bytes |-> <<>>]
Some(b) == [some |-> TRUE, bytes |-> b]
Truthy(v) == v.some /\ Len(v.bytes) > 0

\* one line printed by the decoder: its tag, its words, its numbers
Ev(type, s1, s2, s3, nums) ==
  [type |-> type, s1 |-> s1, s2 |-> s2, s3 |-> s3, nums |-> nums]

NoExc == [type |-> "", msg |-> ""]
BusError == [type |-> "OSError", msg |-> "i2c"]
IndexError == [type |-> "IndexError", msg |-> "index out of range"]
RuntimeError(msg) == [type |-> "RuntimeError", msg |-> msg]

(* ---------------- frame decoder: sky.py 167-249 ------------------------ *)
\* the scan begun at bit 15: (1 << 15) >> idx
TouchComp_from_bit15(idx) == Pow2(15) \div Pow2(idx)

\* comp at iteration idx of the touch scan: (1 << 14) >> idx
TouchComp(idx) == Pow2(14) \div Pow2(idx)

\* the touch scan without its break: every set bit prints
RECURSIVE TouchScan_no_break(_, _)
TouchScan_no_break(action, idx) ==
  IF idx >= 16 THEN <<>>
  ELSE (IF TouchComp(idx) > 0 /\ AndMask(action, TouchComp(idx)) # 0
        THEN IF idx < Len(TOUCH_ACTIONS)
             THEN << Ev("TOUCH", TOUCH_ACTIONS[idx + 1][1], TOUCH_ACTIONS[idx + 1][2], "", <<>>) >>
             ELSE << Ev("TOUCH", "bit", "", "", <<idx>>) >>
        ELSE <<>>) \o TouchScan_no_break(action, idx + 1)

\* the touch scan: for idx in range(16): if action & comp: ...; break
RECURSIVE TouchScan(_, _)
TouchScan(action, idx) ==
  IF idx >= 16 THEN <<>>
  ELSE IF TouchComp(idx) > 0 /\ AndMask(action, TouchComp(idx)) # 0
       THEN IF idx < Len(TOUCH_ACTIONS)
            THEN << Ev("TOUCH", TOUCH_ACTIONS[idx + 1][1], TOUCH_ACTIONS[idx + 1][2], "", <<>>) >>
            ELSE << Ev("TOUCH", "bit", "", "", <<idx>>) >>
       ELSE TouchScan(action, idx + 1)

\* GESTURES.get(gid) and the print branches of the gesture block
GestureEvent(gid) ==
  IF gid \in 1..Len(GESTURES)
  THEN LET g == GESTURES[gid]
       IN  IF g[1] = "flick" THEN Ev("GESTURE", "flick", g[2], g[3], <<>>)
           ELSE IF g[1] = "circle" THEN Ev("GESTURE", "circle", g[2], "", <<>>)
           ELSE Ev("GESTURE", g[1], "", "", <<>>)
  ELSE Ev("GESTURE", "id", "", "", <<gid>>)

\* What a decoding step yields: what was printed, and whether an index
\* ran past the end of the payload (Python raises IndexError there).
Done(out) == [out |-> out, raised |-> FALSE]
Raised(out) == [out |-> out, raised |-> TRUE]

\* the blocks chained as if/elif: a block that printed ends the decoding
Then_first_only(res, step) ==
  IF res.raised \/ res.out # <<>> THEN res
  ELSE [out |-> res.out \o step.out, raised |-> step.raised]

\* run step only when the steps before it did not raise
Then(res, step) ==
  IF res.raised THEN res
  ELSE [out |-> res.out \o step.out, raised |-> step.raised]

\* the XYZ block gated by the configmask alone
XyzStep_validity_ignored(payload, configmask, sysinfo) ==
  IF AndMask(configmask, SW_DATA_XYZ) # 0
  THEN IF Len(payload) < 22 THEN Raised(<<>>)
       ELSE Done(<< Ev("XYZ", "", "", "",
                       << normalize_0_1(u16(At(payload, 16), At(payload, 17))),
                          normalize_0_1(u16(At(payload, 18), At(payload, 19))),
                          normalize_0_1(u16(At(payload, 20), At(payload, 21))) >>) >>)
  ELSE Done(<<>>)

XyzStep(payload, configmask, sysinfo) ==
  IF AndMask(configmask, SW_DATA_XYZ) # 0 /\ AndMask(sysinfo, SYS_POSITION_VALID) # 0
  THEN IF Len(payload) < 22 THEN Raised(<<>>)
       ELSE Done(<< Ev("XYZ", "", "", "",
                       << normalize_0_1(u16(At(payload, 16), At(payload, 17))),
                          normalize_0_1(u16(At(payload, 18), At(payload, 19))),
                          normalize_0_1(u16(At(payload, 20), At(payload, 21))) >>) >>)
  ELSE Done(<<>>)

\* the gesture block with no else branch: an id GESTURES lacks prints nothing
GestureStep_unknown_dropped(payload, configmask) ==
  IF AndMask(configmask, SW_DATA_GESTURE) # 0
  THEN IF Len(payload) < 7 THEN Raised(<<>>)
       ELSE IF At(payload, 6) \in 1..7
            THEN Done(<< [type |-> "GESTURE",
                          s1 |-> GESTURES[At(payload, 6)][1],
                          s2 |-> GESTURES[At(payload, 6)][2],
                          s3 |-> GESTURES[At(payload, 6)][3],
                          nums |-> <<>>] >>)
            ELSE Done(<<>>)
  ELSE Done(<<>>)

\* the gesture block without its test of payload[6] != 0
GestureStep_zero_printed(payload, configmask) ==
  IF AndMask(configmask, SW_DATA_GESTURE) # 0
  THEN IF Len(payload) < 7 THEN Raised(<<>>)
       ELSE Done(<< GestureEvent(At(payload, 6)) >>)
  ELSE Done(<<>>)

GestureStep(payload, configmask) ==
  IF AndMask(configmask, SW_DATA_GESTURE) # 0
  THEN IF Len(payload) < 7 THEN Raised(<<>>)
       ELSE IF At(payload, 6) # 0 THEN Done(<< GestureEvent(At(payload, 6)) >>)
       ELSE Done(<<>>)
  ELSE Done(<<>>)

TouchStep(payload, configmask) ==
  IF AndMask(configmask, SW_DATA_TOUCH) # 0
  THEN IF Len(payload) < 12 THEN Raised(<<>>)
       ELSE Done(TouchScan((At(payload, 11) * 256) + At(payload, 10), 0))
  ELSE Done(<<>>)

\* the air-wheel block printing the position within a turn of 32 steps
AirwheelStep_step_of_turn(payload, configmask, sysinfo) ==
  IF AndMask(configmask, SW_DATA_AIRWHEEL) # 0 /\ AndMask(sysinfo, SYS_AIRWHEEL_VALID) # 0
  THEN IF Len(payload) < 15 THEN Raised(<<>>)
       ELSE Done(<< Ev("AIRWHEEL", "", "", "", << At(payload, 14) % 32 >>) >>)
  ELSE Done(<<>>)

AirwheelStep(payload, configmask, sysinfo) ==
  IF AndMask(configmask, SW_DATA_AIRWHEEL) # 0 /\ AndMask(sysinfo, SYS_AIRWHEEL_VALID) # 0
  THEN IF Len(payload) < 15 THEN Raised(<<>>)
       ELSE Done(<< Ev("AIRWHEEL", "", "", "", << At(payload, 14) >>) >>)
  ELSE Done(<<>>)

handle_sensor_data(payload) ==
  IF Len(payload) < 4 THEN Raised(<<>>)
  ELSE LET configmask == At(payload, 0) + (At(payload, 1) * 256)
           sysinfo == At(payload, 3)
       IN  Then(Then(Then(XyzStep(payload, configmask, sysinfo),
                          GestureStep(payload, configmask)),
                     TouchStep(payload, configmask)),
                AirwheelStep(payload, configmask, sysinfo))

\* bytes.decode(errors='ignore'): ASCII bytes are kept; 0xF8..0xFF, which
\* no UTF-8 sequence contains, are dropped.  The frames of this model hold
\* no other byte in their text.
DecodeIgnore(b) == SelectSeq(b, LAMBDA c : c < 128)

StripChars == {0, 13, 10, 32}

RECURSIVE StripLeft(_)
StripLeft(s) ==
  IF s # <<>> /\ Head(s) \in StripChars THEN StripLeft(Tail(s)) ELSE s

RECURSIVE StripRight(_)
StripRight(s) ==
  IF s # <<>> /\ s[Len(s)] \in StripChars
  THEN StripRight(SubSeq(s, 1, Len(s) - 1)) ELSE s

Strip(s) == StripRight(StripLeft(s))

\* process_frame without the guard of its first statement: frame[3] is
\* indexed whatever the length
process_frame_unguarded(frame) ==
  IF Len(frame.bytes) < 4 THEN Raised(<<>>)
  ELSE LET d_ident == At(frame.bytes, 3)
           payload == SliceFrom(frame.bytes, 4)
       IN  IF d_ident = SW_SENSOR_DATA THEN handle_sensor_data(payload)
           ELSE IF d_ident = SW_FW_VERSION
                THEN Done(<< Ev("FW", "", "", "", Strip(DecodeIgnore(SliceFrom(payload, 8)))) >>)
           ELSE Done(<<>>)

\* process_frame(frame): the lines it prints and whether it raised
process_frame(frame) ==
  IF ~Truthy(frame) \/ Len(frame.bytes) < 4 THEN Done(<<>>)
  ELSE LET d_ident == At(frame.bytes, 3)
           payload == SliceFrom(frame.bytes, 4)
       IN  IF d_ident = SW_SENSOR_DATA THEN handle_sensor_data(payload)
           ELSE IF d_ident = SW_SYSTEM_STATUS THEN Done(<<>>)
           ELSE IF d_ident = SW_FW_VERSION
                THEN Done(<< Ev("FW", "", "", "", Strip(DecodeIgnore(SliceFrom(payload, 8)))) >>)
           ELSE Done(<<>>)

(* ---------------- the frames the sensor posts -------------------------- *)
\* a 32-byte window: 4-byte header, then the payload, zero-filled
MkFrame(ident, payload) ==
  <<FRAME_LEN - 2, 0, 0, ident>> \o payload \o Zeros(FRAME_LEN - 4 - Len(payload))

F_ACK == MkFrame(SW_SYSTEM_STATUS, <<SW_SET_RUNTIME>>)
F_STATUS_OTHER == MkFrame(SW_SYSTEM_STATUS, <<SW_REQUEST_MSG>>)
\* sensor data whose first payload byte happens to equal SW_SET_RUNTIME
F_SENSOR_A2 == MkFrame(SW_SENSOR_DATA, <<162, 0, 0, 0, 0, 0, 3>>)
\* sensor data with every field enabled and valid
F_SENSOR_ALL ==
  MkFrame(SW_SENSOR_DATA,
          <<31, 0, 0, 3, 0, 0, 1, 0, 0, 0, 8, 72, 0, 0, 16, 0,
            128, 128, 255, 255, 0, 8>>)
F_FW == MkFrame(SW_FW_VERSION, <<0, 0, 0, 0, 0, 0, 0, 0, 49, 46, 48, 255, 10>>)
F_UNKNOWN == MkFrame(SW_REQUEST_MSG, <<SW_SET_RUNTIME>>)

DeviceFrames == {F_ACK, F_STATUS_OTHER, F_SENSOR_A2, F_SENSOR_ALL, F_FW, F_UNKNOWN}

(* ---------------- configure_runtime's four commands: sky.py 99-136 ----- *)
enable_mask == 31

CfgCommands ==
  << <<0, 0, SW_SET_RUNTIME, 144, 0, 0, 0, 32, 0, 0, 0, 32, 0, 0, 0>>,
     <<0, 0, SW_SET_RUNTIME, 133, 0, 0, 0, 127, 0, 0, 0, 127, 0, 0, 0>>,
     <<0, 0, SW_SET_RUNTIME, 160, 0, 0, 0, enable_mask, 0, 0, 0, enable_mask, 0, 0, 0>>,
     <<0, 0, SW_SET_RUNTIME, 128, 0, 0, 0, 0, 0, 0, 0, enable_mask, 0, 0, 0>> >>

CfgMessages ==
  << "SET_RUNTIME (AirWheel) no status",
     "SET_RUNTIME (gestures) no status",
     "SET_RUNTIME (data outputs) no status",
     "SET_RUNTIME (autocal off) no status" >>

\* the command ids a direct call of get_status_expect is given
GseCmds == {SW_SET_RUNTIME, SW_REQUEST_MSG}

(* ---------------- state ------------------------------------------------ *)
VARIABLES
  pc,          \* the statement the host executes next
  top,         \* the call made at top level: "main", "poll", "gse" or "none"
  pin_rst,     \* value driven on the reset line
  pin_xfer,    \* transfer line pin: [mode, pull, out]
  rstLowMs,    \* ms slept with reset low (saturates at RESET_LOW_MS)
  rstHighMs,   \* ms slept since reset went high (saturates at RESET_WAIT_MS)
  devFrame,    \* the frame the sensor holds ready (it asserts the line), or None
  cfgStep,     \* configure_runtime: the step 1..4 in progress
  cfgLog,      \* configure_runtime: block writes issued and acknowledgements seen
  configured,  \* configure_runtime has returned normally since the last reset
  gseCmd,      \* get_status_expect: cmd_id
  gseTries,    \* get_status_expect: tries
  gseSleeps,   \* get_status_expect: iterations begun (one sleep_ms(1) each)
  gseChecks,   \* get_status_expect: samplings of the transfer line
  gseReads,    \* get_status_expect: returns of read_frame_raw
  gseRet,      \* get_status_expect: the value returned
  gseCaller,   \* get_status_expect: "cfg" or "top"
  data,        \* get_status_expect: its local data
  rfCaller,    \* read_frame_raw: "gse" or "poll"
  rx,          \* read_frame_raw: the value it returns
  frame,       \* polling tick: the frame handed to process_frame
  out,         \* the lines process_frame printed in the last polling tick
  exc,         \* the exception propagating, or NoExc
  sndPc,          \* sounds.py: "command" (top of the loop) or "play"
  emotions,       \* sounds.py: the module's list emotions
  currentEmotion, \* sounds.py: index into emotions, -1 random, -2 temporary
  temp_emotion,   \* sounds.py: the emotion the last MIX created, or Unbound
  played          \* sounds.py: the emotion last given to play_emotion

\* the state of the sensor driver, sky.py
skyVars == <<pc, top, pin_rst, pin_xfer, rstLowMs, rstHighMs, devFrame, cfgStep,
             cfgLog, configured, gseCmd, gseTries, gseSleeps, gseChecks, gseReads,
             gseRet, gseCaller, data, rfCaller, rx, frame, out, exc>>

\* the state of the sound tool, sounds.py
sndVars == <<sndPc, emotions, currentEmotion, temp_emotion, played>>

vars == <<skyVars, sndVars>>

hwVars == <<pin_rst, pin_xfer, rstLowMs, rstHighMs, devFrame>>
rstVars == <<pin_rst, rstLowMs, rstHighMs>>
cfgVars == <<cfgStep, cfgLog, configured>>
gseVars == <<gseCmd, gseTries, gseSleeps, gseChecks, gseReads, gseRet, gseCaller, data>>
rfVars == <<rfCaller, rx>>
pollVars == <<frame, out>>

XFER_INPUT == [mode |-> "IN", pull |-> "UP", out |-> 1]
XFER_FREEZE == [mode |-> "OUT", pull |-> "NONE", out |-> 0]

\* pin_xfer.value(): the level of the line.  As an input it is pulled up
\* unless the sensor asserts it; as an output the host's level shows.
XferValue ==
  IF pin_xfer.mode = "OUT" THEN pin_xfer.out
  ELSE IF devFrame.some THEN 0 ELSE 1

(* ---------------- sounds.py: the emotions and the loop's state -------- *)
\* an Emotion, by the two attributes the command loop reads
Emotion(name, category) == [name |-> name, category |-> category]

\* no emotion: None, or a name not yet bound
Unbound == [name |-> "", category |-> ""]

\* the list emotions as the module creates it: sounds.py 284-298
BaseEmotions ==
  << Emotion("HAPPY", "positive"), Emotion("SAD", "negative"),
     Emotion("SURPRISED", "reactive"), Emotion("ANGRY", "negative"),
     Emotion("IRRITATED", "negative"), Emotion("PURR", "positive"),
     Emotion("PURR_DEEP", "positive"), Emotion("PURR_HIGH", "positive"),
     Emotion("CURIOUS", "reactive"), Emotion("CONFUSED", "reactive"),
     Emotion("EXCITED", "positive"), Emotion("TIRED", "neutral"),
     Emotion("TALK", "neutral") >>

\* the sound tool as its command loop is entered: currentEmotion = -1
SoundStart ==
  /\ sndPc = "command"
  /\ emotions = BaseEmotions
  /\ currentEmotion = -1
  /\ temp_emotion = Unbound
  /\ played = Unbound

Init ==
  /\ SoundStart
  /\ pc = "main_reset"
  /\ top = "main"
  /\ pin_rst = 1
  /\ pin_xfer = XFER_INPUT
  /\ rstLowMs = 0
  /\ rstHighMs = 0
  /\ devFrame = None
  /\ cfgStep = 0
  /\ cfgLog = <<>>
  /\ configured = FALSE
  /\ gseCmd = 0
  /\ gseTries = 0
  /\ gseSleeps = 0
  /\ gseChecks = 0
  /\ gseReads = 0
  /\ gseRet = FALSE
  /\ gseCaller = "none"
  /\ data = None
  /\ rfCaller = "none"
  /\ rx = None
  /\ frame = None
  /\ out = <<>>
  /\ exc = NoExc

(* ---------------- time.sleep_ms ---------------------------------------- *)
\* sleep_ms(ms) lasts at least ms; the two timers count the least time.
SleepLow(ms) == IF pin_rst = 0 THEN Min(rstLowMs + ms, RESET_LOW_MS) ELSE rstLowMs
SleepHigh(ms) == IF pin_rst = 1 THEN Min(rstHighMs + ms, RESET_WAIT_MS) ELSE rstHighMs

(* ---------------- the sensor ------------------------------------------- *)
\* The chip posts a frame and asserts the transfer line; it waits for the
\* host to drain it.  It posts nothing while the host freezes its buffer.
device_post ==
  /\ ~devFrame.some
  /\ pin_xfer.mode = "IN"
  /\ \E f \in DeviceFrames : devFrame' = Some(f)
  /\ UNCHANGED <<pc, top, pin_rst, pin_xfer, rstLowMs, rstHighMs, cfgVars,
                 gseVars, rfVars, pollVars, exc>>
  /\ UNCHANGED sndVars

(* ---------------- hw_reset: sky.py 82-87 ------------------------------- *)
hr_low ==
  /\ pc = "hr_low"
  /\ pin_rst' = 0
  /\ rstLowMs' = 0
  /\ rstHighMs' = 0
  /\ configured' = FALSE
  /\ pc' = "hr_sleep_low"
  /\ UNCHANGED <<top, pin_xfer, devFrame, cfgStep, cfgLog, gseVars, rfVars,
                 pollVars, exc>>
  /\ UNCHANGED sndVars

hr_sleep_low ==
  /\ pc = "hr_sleep_low"
  /\ rstLowMs' = SleepLow(RESET_LOW_MS)
  /\ rstHighMs' = SleepHigh(RESET_LOW_MS)
  /\ pc' = "hr_high"
  /\ UNCHANGED <<top, pin_rst, pin_xfer, devFrame, cfgVars, gseVars, rfVars,
                 pollVars, exc>>
  /\ UNCHANGED sndVars

hr_high ==
  /\ pc = "hr_high"
  /\ pin_rst' = 1
  /\ pc' = "hr_sleep_high"
  /\ UNCHANGED <<top, pin_xfer, rstLowMs, rstHighMs, devFrame, cfgVars, gseVars,
                 rfVars, pollVars, exc>>
  /\ UNCHANGED sndVars

\* Variant of hr_sleep_high that waits the datasheet's 200 ms only.
hr_sleep_high_short ==
  /\ pc = "hr_sleep_high"
  /\ rstLowMs' = SleepLow(200)
  /\ rstHighMs' = SleepHigh(200)
  /\ pc' = "hr_exit"
  /\ UNCHANGED <<top, pin_rst, pin_xfer, devFrame, cfgVars, gseVars, rfVars,
                 pollVars, exc>>
  /\ UNCHANGED sndVars

hr_sleep_high ==
  /\ pc = "hr_sleep_high"
  /\ rstLowMs' = SleepLow(RESET_WAIT_MS)
  /\ rstHighMs' = SleepHigh(RESET_WAIT_MS)
  /\ pc' = "hr_exit"
  /\ UNCHANGED <<top, pin_rst, pin_xfer, devFrame, cfgVars, gseVars, rfVars,
                 pollVars, exc>>
  /\ UNCHANGED sndVars

\* hw_reset returns to main, which calls configure_runtime next
hr_exit ==
  /\ pc = "hr_exit"
  /\ pc' = "main_configure"
  /\ UNCHANGED <<top, hwVars, cfgVars, gseVars, rfVars, pollVars, exc>>
  /\ UNCHANGED sndVars

(* ---------------- read_frame_raw: sky.py 139-165 ----------------------- *)
\* Variant of rf_check without the early return: the host goes on to freeze
\* and read whatever the line shows.
rf_check_no_return ==
  /\ pc = "rf_check"
  /\ pc' = "rf_drive"
  /\ UNCHANGED <<top, hwVars, cfgVars, gseVars, rfVars, pollVars, exc>>
  /\ UNCHANGED sndVars

\* if pin_xfer.value() != 0: return None
rf_check ==
  /\ pc = "rf_check"
  /\ IF XferValue # 0
     THEN /\ rx' = None
          /\ pc' = "rf_exit"
     ELSE /\ rx' = rx
          /\ pc' = "rf_drive"
  /\ UNCHANGED <<top, hwVars, cfgVars, gseVars, rfCaller, pollVars, exc>>
  /\ UNCHANGED sndVars

\* Variant of rf_drive that forgets to take the line: the read follows with
\* the pin still an input.
rf_drive_skipped ==
  /\ pc = "rf_drive"
  /\ pc' = "rf_read"
  /\ UNCHANGED <<top, hwVars, cfgVars, gseVars, rfVars, pollVars, exc>>
  /\ UNCHANGED sndVars

\* pin_xfer.init(Pin.OUT, value=0)
rf_drive ==
  /\ pc = "rf_drive"
  /\ pin_xfer' = XFER_FREEZE
  /\ pc' = "rf_read"
  /\ UNCHANGED <<top, rstVars, devFrame, cfgVars, gseVars, rfVars, pollVars,
                 exc>>
  /\ UNCHANGED sndVars

\* Variant of rf_read whose release is not in a finally clause: a failed
\* read leaves the function at once.
rf_read_no_finally ==
  /\ pc = "rf_read"
  /\ \/ /\ devFrame.some
        /\ rx' = Some(SubSeq(devFrame.bytes, 1, FRAME_LEN))
        /\ devFrame' = None
        /\ exc' = exc
        /\ pc' = "rf_release"
     \/ /\ exc' = BusError
        /\ rx' = rx
        /\ devFrame' \in {devFrame, None}
        /\ pc' = "rf_exit"
  /\ UNCHANGED <<top, rstVars, pin_xfer, cfgVars, gseVars, rfCaller, pollVars>>
  /\ UNCHANGED sndVars

\* Variant of rf_read that reads as many bytes as the frame's size byte
\* declares, 32 at most.
rf_read_declared_size ==
  /\ pc = "rf_read"
  /\ \/ /\ devFrame.some
        /\ rx' = Some(SubSeq(devFrame.bytes, 1, Min(devFrame.bytes[1], FRAME_LEN)))
        /\ devFrame' = None
        /\ exc' = exc
     \/ /\ exc' = BusError
        /\ rx' = rx
        /\ devFrame' \in {devFrame, None}
  /\ pc' = "rf_release"
  /\ UNCHANGED <<top, rstVars, pin_xfer, cfgVars, gseVars, rfCaller, pollVars>>
  /\ UNCHANGED sndVars

\* Variant of rf_read that asks the bus for 16 bytes instead of 32.
rf_read_short ==
  /\ pc = "rf_read"
  /\ \/ /\ devFrame.some
        /\ rx' = Some(SubSeq(devFrame.bytes, 1, 16))
        /\ devFrame' = None
        /\ exc' = exc
     \/ /\ exc' = BusError
        /\ rx' = rx
        /\ devFrame' \in {devFrame, None}
  /\ pc' = "rf_release"
  /\ UNCHANGED <<top, rstVars, pin_xfer, cfgVars, gseVars, rfCaller, pollVars>>
  /\ UNCHANGED sndVars

\* rx = i2c.readfrom_mem(SW_ADDR, 0x00, 32): the 32-byte window, or OSError.
\* After a failed transaction the sensor may or may not still hold the frame.
rf_read ==
  /\ pc = "rf_read"
  /\ \/ /\ devFrame.some
        /\ rx' = Some(SubSeq(devFrame.bytes, 1, FRAME_LEN))
        /\ devFrame' = None
        /\ exc' = exc
     \/ /\ exc' = BusError
        /\ rx' = rx
        /\ devFrame' \in {devFrame, None}
  /\ pc' = "rf_release"
  /\ UNCHANGED <<top, rstVars, pin_xfer, cfgVars, gseVars, rfCaller, pollVars>>
  /\ UNCHANGED sndVars

\* finally: pin_xfer.value(1)
rf_release ==
  /\ pc = "rf_release"
  /\ pin_xfer' = [pin_xfer EXCEPT !.out = 1]
  /\ pc' = "rf_input"
  /\ UNCHANGED <<top, rstVars, devFrame, cfgVars, gseVars, rfVars, pollVars,
                 exc>>
  /\ UNCHANGED sndVars

\* finally: pin_xfer.init(Pin.IN, Pin.PULL_UP)
rf_input ==
  /\ pc = "rf_input"
  /\ pin_xfer' = XFER_INPUT
  /\ pc' = "rf_exit"
  /\ UNCHANGED <<top, rstVars, devFrame, cfgVars, gseVars, rfVars, pollVars,
                 exc>>
  /\ UNCHANGED sndVars

\* Variant of rf_exit for a wait that catches the bus error of its read
\* and goes on as if no frame had been ready.
rf_exit_error_caught ==
  /\ pc = "rf_exit"
  /\ rx' = None
  /\ rfCaller' = "none"
  /\ IF rfCaller = "gse"
     THEN /\ pc' = "gse_test"
          /\ data' = IF exc = NoExc THEN rx ELSE None
          /\ gseReads' = gseReads + 1
          /\ frame' = frame
          /\ exc' = NoExc
     ELSE /\ pc' = IF exc = NoExc THEN "poll_decode" ELSE "poll_exit"
          /\ frame' = IF exc = NoExc THEN rx ELSE frame
          /\ UNCHANGED <<data, gseReads, exc>>
  /\ UNCHANGED <<top, hwVars, cfgVars, gseCmd, gseTries, gseSleeps, gseChecks,
                 gseRet, gseCaller, out>>
  /\ UNCHANGED sndVars

\* return bytearray(rx), return None, or the OSError leaves the function:
\* control goes back to the caller, get_status_expect or the polling tick
rf_exit ==
  /\ pc = "rf_exit"
  /\ rx' = None
  /\ rfCaller' = "none"
  /\ IF rfCaller = "gse"
     THEN /\ pc' = IF exc = NoExc THEN "gse_test" ELSE "gse_exit"
          /\ data' = IF exc = NoExc THEN rx ELSE data
          /\ gseReads' = gseReads + 1
          /\ frame' = frame
     ELSE /\ pc' = IF exc = NoExc THEN "poll_decode" ELSE "poll_exit"
          /\ frame' = IF exc = NoExc THEN rx ELSE frame
          /\ UNCHANGED <<data, gseReads>>
  /\ UNCHANGED <<top, hwVars, cfgVars, gseCmd, gseTries, gseSleeps, gseChecks,
                 gseRet, gseCaller, out, exc>>
  /\ UNCHANGED sndVars

(* ---------------- get_status_expect: sky.py 89-97 ---------------------- *)
\* Variant of gse_loop that is off by one: range(tries + 1).
gse_loop_one_more ==
  /\ pc = "gse_loop"
  /\ IF gseSleeps <= gseTries
     THEN /\ gseSleeps' = gseSleeps + 1
          /\ rstLowMs' = SleepLow(POLL_SLEEP_MS)
          /\ rstHighMs' = SleepHigh(POLL_SLEEP_MS)
          /\ gseRet' = gseRet
          /\ pc' = "gse_check"
     ELSE /\ gseRet' = FALSE
          /\ pc' = "gse_exit"
          /\ UNCHANGED <<gseSleeps, rstLowMs, rstHighMs>>
  /\ UNCHANGED <<top, pin_rst, pin_xfer, devFrame, cfgVars, gseCmd, gseTries,
                 gseChecks, gseReads, gseCaller, data, rfVars, pollVars, exc>>
  /\ UNCHANGED sndVars

\* for _ in range(tries): time.sleep_ms(1) ... ; after the loop return False
gse_loop ==
  /\ pc = "gse_loop"
  /\ IF gseSleeps < gseTries
     THEN /\ gseSleeps' = gseSleeps + 1
          /\ rstLowMs' = SleepLow(POLL_SLEEP_MS)
          /\ rstHighMs' = SleepHigh(POLL_SLEEP_MS)
          /\ gseRet' = gseRet
          /\ pc' = "gse_check"
     ELSE /\ gseRet' = FALSE
          /\ pc' = "gse_exit"
          /\ UNCHANGED <<gseSleeps, rstLowMs, rstHighMs>>
  /\ UNCHANGED <<top, pin_rst, pin_xfer, devFrame, cfgVars, gseCmd, gseTries,
                 gseChecks, gseReads, gseCaller, data, rfVars, pollVars, exc>>
  /\ UNCHANGED sndVars

\* if pin_xfer.value() == 0: data = read_frame_raw()
gse_check ==
  /\ pc = "gse_check"
  /\ gseChecks' = gseChecks + 1
  /\ IF XferValue = 0
     THEN /\ rfCaller' = "gse"
          /\ pc' = "rf_check"
     ELSE /\ rfCaller' = rfCaller
          /\ pc' = "gse_loop"
  /\ UNCHANGED <<top, hwVars, cfgVars, gseCmd, gseTries, gseSleeps, gseReads,
                 gseRet, gseCaller, data, rx, pollVars, exc>>
  /\ UNCHANGED sndVars

\* Variant of StatusMatch that takes any status frame for the acknowledgement.
StatusMatch_any_status(d, cmd_id) ==
  /\ Truthy(d)
  /\ At(d.bytes, 3) = SW_SYSTEM_STATUS

\* data and data[3] == SW_SYSTEM_STATUS and data[4] == cmd_id
StatusMatch(d, cmd_id) ==
  /\ Truthy(d)
  /\ At(d.bytes, 3) = SW_SYSTEM_STATUS
  /\ At(d.bytes, 4) = cmd_id

\* Variant of gse_test that hands a frame that is not the acknowledgement
\* to process_frame before the wait goes on.
gse_test_decodes_others ==
  /\ pc = "gse_test"
  /\ IF StatusMatch(data, gseCmd)
     THEN /\ gseRet' = TRUE
          /\ pc' = "gse_exit"
          /\ cfgLog' = IF gseCaller = "cfg"
                       THEN Append(cfgLog, [op |-> "ack", reg |-> REG_READ,
                                            data |-> SubSeq(data.bytes, 4, 5)])
                       ELSE cfgLog
          /\ out' = out
     ELSE /\ gseRet' = gseRet
          /\ pc' = "gse_loop"
          /\ cfgLog' = cfgLog
          /\ out' = process_frame(data).out
  /\ UNCHANGED <<top, hwVars, cfgStep, configured, gseCmd, gseTries, gseSleeps,
                 gseChecks, gseReads, gseCaller, data, rfVars, frame, exc>>
  /\ UNCHANGED sndVars

\* if data and ...: return True
gse_test ==
  /\ pc = "gse_test"
  /\ IF StatusMatch(data, gseCmd)
     THEN /\ gseRet' = TRUE
          /\ pc' = "gse_exit"
          /\ cfgLog' = IF gseCaller = "cfg"
                       THEN Append(cfgLog, [op |-> "ack", reg |-> REG_READ,
                                            data |-> SubSeq(data.bytes, 4, 5)])
                       ELSE cfgLog
     ELSE /\ gseRet' = gseRet
          /\ pc' = "gse_loop"
          /\ cfgLog' = cfgLog
  /\ UNCHANGED <<top, hwVars, cfgStep, configured, gseCmd, gseTries, gseSleeps,
                 gseChecks, gseReads, gseCaller, data, rfVars, pollVars, exc>>
  /\ UNCHANGED sndVars

\* the value, or the exception, goes to the caller: configure_runtime or
\* the top level of the program
gse_exit ==
  /\ pc = "gse_exit"
  /\ data' = None
  /\ gseCmd' = 0
  /\ gseTries' = 0
  /\ gseSleeps' = 0
  /\ gseChecks' = 0
  /\ gseReads' = 0
  /\ gseCaller' = "none"
  /\ IF gseCaller = "cfg"
     THEN /\ pc' = IF exc = NoExc THEN "cfg_test" ELSE "cfg_exit"
          /\ UNCHANGED <<top, exc, gseRet>>
     ELSE /\ pc' = "idle"
          /\ top' = "none"
          /\ exc' = NoExc
          /\ gseRet' = FALSE
  /\ UNCHANGED <<hwVars, cfgVars, rfVars, pollVars>>
  /\ UNCHANGED sndVars

(* ---------------- configure_runtime: sky.py 99-136 --------------------- *)
\* write_block(0x10, [...]) of the step in progress: i2c.writeto_mem sends
\* the block, or raises OSError
cfg_write ==
  /\ pc = "cfg_write"
  /\ cfgLog' = Append(cfgLog, [op |-> "write", reg |-> REG_WRITE,
                               data |-> CfgCommands[cfgStep]])
  /\ \/ /\ pc' = "cfg_wait"
        /\ exc' = exc
     \/ /\ pc' = "cfg_exit"
        /\ exc' = BusError
  /\ UNCHANGED <<top, hwVars, cfgStep, configured, gseVars, rfVars, pollVars>>
  /\ UNCHANGED sndVars

\* get_status_expect(SW_SET_RUNTIME), tries left at its default
cfg_wait ==
  /\ pc = "cfg_wait"
  /\ gseCmd' = SW_SET_RUNTIME
  /\ gseTries' = DEFAULT_TRIES
  /\ gseSleeps' = 0
  /\ gseChecks' = 0
  /\ gseReads' = 0
  /\ gseRet' = FALSE
  /\ gseCaller' = "cfg"
  /\ data' = None
  /\ pc' = "gse_loop"
  /\ UNCHANGED <<top, hwVars, cfgVars, rfVars, pollVars, exc>>
  /\ UNCHANGED sndVars

\* Variant of cfg_test that does not look at what the wait returned.
cfg_test_ignores_failure ==
  /\ pc = "cfg_test"
  /\ exc' = exc
  /\ pc' = IF cfgStep < Len(CfgCommands) THEN "cfg_write" ELSE "cfg_exit"
  /\ cfgStep' = IF cfgStep < Len(CfgCommands) THEN cfgStep + 1 ELSE cfgStep
  /\ gseRet' = FALSE
  /\ UNCHANGED <<top, hwVars, cfgLog, configured, gseCmd, gseTries, gseSleeps,
                 gseChecks, gseReads, gseCaller, data, rfVars, pollVars>>
  /\ UNCHANGED sndVars

\* Variant of cfg_test that raises the first step's message at every step.
cfg_test_same_message ==
  /\ pc = "cfg_test"
  /\ IF ~gseRet
     THEN /\ exc' = RuntimeError(CfgMessages[1])
          /\ pc' = "cfg_exit"
          /\ cfgStep' = cfgStep
     ELSE /\ exc' = exc
          /\ pc' = IF cfgStep < Len(CfgCommands) THEN "cfg_write" ELSE "cfg_exit"
          /\ cfgStep' = IF cfgStep < Len(CfgCommands) THEN cfgStep + 1 ELSE cfgStep
  /\ gseRet' = FALSE
  /\ UNCHANGED <<top, hwVars, cfgLog, configured, gseCmd, gseTries, gseSleeps,
                 gseChecks, gseReads, gseCaller, data, rfVars, pollVars>>
  /\ UNCHANGED sndVars

\* if not get_status_expect(...): raise RuntimeError(...); else the next step
cfg_test ==
  /\ pc = "cfg_test"
  /\ IF ~gseRet
     THEN /\ exc' = RuntimeError(CfgMessages[cfgStep])
          /\ pc' = "cfg_exit"
          /\ cfgStep' = cfgStep
     ELSE /\ exc' = exc
          /\ pc' = IF cfgStep < Len(CfgCommands) THEN "cfg_write" ELSE "cfg_exit"
          /\ cfgStep' = IF cfgStep < Len(CfgCommands) THEN cfgStep + 1 ELSE cfgStep
  /\ gseRet' = FALSE
  /\ UNCHANGED <<top, hwVars, cfgLog, configured, gseCmd, gseTries, gseSleeps,
                 gseChecks, gseReads, gseCaller, data, rfVars, pollVars>>
  /\ UNCHANGED sndVars

\* configure_runtime returns to main, or its exception goes on to main
cfg_exit ==
  /\ pc = "cfg_exit"
  /\ configured' = (exc = NoExc)
  /\ pc' = IF exc = NoExc THEN "main_polling" ELSE "main_exit"
  /\ UNCHANGED <<top, hwVars, cfgStep, cfgLog, gseVars, rfVars, pollVars, exc>>
  /\ UNCHANGED sndVars

(* ---------------- main: sky.py 251-275 --------------------------------- *)
\* hw_reset()
main_reset ==
  /\ pc = "main_reset"
  /\ pc' = "hr_low"
  /\ UNCHANGED <<top, hwVars, cfgVars, gseVars, rfVars, pollVars, exc>>
  /\ UNCHANGED sndVars

\* configure_runtime()
main_configure ==
  /\ pc = "main_configure"
  /\ cfgStep' = 1
  /\ cfgLog' = <<>>
  /\ pc' = "cfg_write"
  /\ UNCHANGED <<top, hwVars, configured, gseVars, rfVars, pollVars, exc>>
  /\ UNCHANGED sndVars

\* print("Configured. Polling..."); last_print = time.ticks_ms().  The
\* polling loop that follows in the file is commented out: main returns.
main_polling ==
  /\ pc = "main_polling"
  /\ pc' = "main_exit"
  /\ UNCHANGED <<top, hwVars, cfgVars, gseVars, rfVars, pollVars, exc>>
  /\ UNCHANGED sndVars

\* main has returned, or an exception has left it (only KeyboardInterrupt
\* is caught around it)
main_exit ==
  /\ pc = "main_exit"
  /\ exc' = NoExc
  /\ cfgStep' = 0
  /\ cfgLog' = <<>>
  /\ top' = "none"
  /\ pc' = "idle"
  /\ UNCHANGED <<hwVars, configured, gseVars, rfVars, pollVars>>
  /\ UNCHANGED sndVars

(* ---------------- calls made once main has ended ----------------------- *)
\* main() again: reset and configure anew
call_main ==
  /\ pc = "idle"
  /\ top' = "main"
  /\ pc' = "main_reset"
  /\ UNCHANGED <<hwVars, cfgVars, gseVars, rfVars, pollVars, exc>>
  /\ UNCHANGED sndVars

\* get_status_expect(cmd_id, tries) called on its own
call_get_status_expect ==
  /\ pc = "idle"
  /\ \E c \in GseCmds, t \in 0..MaxTries :
        /\ gseCmd' = c
        /\ gseTries' = t
  /\ gseSleeps' = 0
  /\ gseChecks' = 0
  /\ gseReads' = 0
  /\ gseRet' = FALSE
  /\ gseCaller' = "top"
  /\ data' = None
  /\ top' = "gse"
  /\ pc' = "gse_loop"
  /\ UNCHANGED <<hwVars, cfgVars, rfVars, pollVars, exc>>
  /\ UNCHANGED sndVars

\* one polling tick: frame = read_frame_raw(); process_frame(frame)
call_poll ==
  /\ pc = "idle"
  /\ top' = "poll"
  /\ rfCaller' = "poll"
  /\ frame' = None
  /\ out' = <<>>
  /\ pc' = "rf_check"
  /\ UNCHANGED <<hwVars, cfgVars, gseVars, rx, exc>>
  /\ UNCHANGED sndVars

\* Variant of poll_decode for a decoder that consults module state: it
\* reports nothing until a configuration has succeeded.
poll_decode_needs_configured ==
  /\ pc = "poll_decode"
  /\ out' = IF configured THEN process_frame(frame).out ELSE <<>>
  /\ exc' = IF process_frame(frame).raised THEN IndexError ELSE exc
  /\ pc' = "poll_exit"
  /\ UNCHANGED <<top, hwVars, cfgVars, gseVars, rfVars, frame>>
  /\ UNCHANGED sndVars

\* process_frame(frame): the lines it prints; an index past the end of the
\* payload raises IndexError
poll_decode ==
  /\ pc = "poll_decode"
  /\ out' = process_frame(frame).out
  /\ exc' = IF process_frame(frame).raised THEN IndexError ELSE exc
  /\ pc' = "poll_exit"
  /\ UNCHANGED <<top, hwVars, cfgVars, gseVars, rfVars, frame>>
  /\ UNCHANGED sndVars

\* the tick ends: normally, or with the exception that left it
poll_exit ==
  /\ pc = "poll_exit"
  /\ exc' = NoExc
  /\ frame' = None
  /\ out' = <<>>
  /\ top' = "none"
  /\ pc' = "idle"
  /\ UNCHANGED <<hwVars, cfgVars, gseVars, rfVars>>
  /\ UNCHANGED sndVars

(* ---------------- the program ------------------------------------------ *)
\* the steps of main and of the functions it calls
MainStep ==
  \/ main_reset \/ hr_low \/ hr_sleep_low \/ hr_high \/ hr_sleep_high \/ hr_exit
  \/ main_configure \/ cfg_write \/ cfg_wait \/ cfg_test \/ cfg_exit
  \/ gse_loop \/ gse_check \/ gse_test \/ gse_exit
  \/ rf_check \/ rf_drive \/ rf_read \/ rf_release \/ rf_input \/ rf_exit
  \/ main_polling \/ main_exit

\* the steps of a polling tick outside the functions it calls
PollStep == poll_decode \/ poll_exit

\* the calls an application makes once main has ended
Call == call_main \/ call_get_status_expect \/ call_poll

Next == MainStep \/ PollStep \/ Call \/ device_post

\* the driver with an application that calls its functions after main
Spec == Init /\ [][Next]_vars

\* The script as it runs: main, called once (sky.py 269-271), and the
\* sensor.  The host is one thread that nothing preempts, so main's steps
\* are taken as long as one is enabled.
ProgramNext == MainStep \/ device_post

ProgramSpec == Init /\ [][ProgramNext]_vars /\ WF_vars(MainStep)

(* ---------------- the decoder called on its own ------------------------ *)
\* a sensor-data payload laid out as handle_sensor_data reads it:
\* configmask 0-1, sysinfo 3, gesture 6, touch 10-11, airwheel 14, xyz 16-21
SensorPayload(cm_lo, cm_hi, sysinfo, gid, action, rot, x_u, y_u, z_u) ==
  <<cm_lo, cm_hi, 0, sysinfo, 0, 0, gid, 0, 0, 0,
    action % 256, action \div 256, 0, 0, rot, 0,
    x_u % 256, x_u \div 256, y_u % 256, y_u \div 256, z_u % 256, z_u \div 256>>

SensorFrame(payload) == Some(MkFrame(SW_SENSOR_DATA, payload))

\* no frame, and every bytearray of 0..3 bytes over three byte values
ShortFrames ==
  {None} \cup {Some(b) : b \in UNION {[1..n -> {0, SW_SENSOR_DATA, 255}] : n \in 0..3}}

\* touch enabled alone, every value of the action field
TouchFrames ==
  {SensorFrame(SensorPayload(SW_DATA_TOUCH, 0, 0, 0, a, 0, 0, 0, 0)) : a \in 0..65535}

\* every gesture byte, gestures enabled and not
GestureFrames ==
  {SensorFrame(SensorPayload(cm, 0, 3, g, 0, 0, 0, 0, 0)) :
     cm \in {0, SW_DATA_GESTURE, 29, 31}, g \in 0..255}

\* every rotation byte, under every state of the air-wheel's two gates
AirwheelFrames ==
  {SensorFrame(SensorPayload(cm, 0, s, 0, 0, r, 0, 0, 0)) :
     cm \in {SW_DATA_AIRWHEEL, 23}, s \in 0..3, r \in 0..255}

\* position enabled and valid, every raw value of one axis
XyzFrames ==
  {SensorFrame(SensorPayload(SW_DATA_XYZ, 0, SYS_POSITION_VALID, 0, 0, 0,
                             v, 65535 - v, 32896)) : v \in 0..65535}

\* every combination of the five enable bits and the two validity bits,
\* with and without the unused bits around them, a gesture and a touch
GateFrames ==
  {SensorFrame(SensorPayload(cm, hi, s, g, a, 16, 32896, 65535, 2048)) :
     cm \in 0..31, hi \in {0, 255}, s \in {0, 1, 2, 3, 252, 255},
     g \in {0, 2}, a \in {0, 18440}}

\* the 32-byte windows whose first 22 bytes are those of the specification's
\* end-to-end example; bytes 22..25 are the y and z the decoder reads
ExampleFrames ==
  {Some(<<30, 0, 0, 145, 31, 0, 0, 1, 0, 0, 0, 0, 0, 0, 16, 0,
          128, 128, 128, 128, 128, 128>> \o t \o Zeros(6)) :
     t \in [1..4 -> {0, 128, 255}]}

\* the families of frames the decoder is called with
DecoderInputs ==
  <<ShortFrames, TouchFrames, GestureFrames, AirwheelFrames, XyzFrames,
    GateFrames, ExampleFrames, {Some(f) : f \in DeviceFrames}>>

\* process_frame(frame) called directly with a frame of DecoderInputs
DecodeInit ==
  /\ SoundStart
  /\ pc = "decode"
  /\ top = "decode"
  /\ \E i \in 1..Len(DecoderInputs) : frame \in DecoderInputs[i]
  /\ pin_rst = 1
  /\ pin_xfer = XFER_INPUT
  /\ rstLowMs = 0
  /\ rstHighMs = 0
  /\ devFrame = None
  /\ cfgStep = 0
  /\ cfgLog = <<>>
  /\ configured = FALSE
  /\ gseCmd = 0
  /\ gseTries = 0
  /\ gseSleeps = 0
  /\ gseChecks = 0
  /\ gseReads = 0
  /\ gseRet = FALSE
  /\ gseCaller = "none"
  /\ data = None
  /\ rfCaller = "none"
  /\ rx = None
  /\ out = <<>>
  /\ exc = NoExc

\* the call runs to its end: what it printed, and the error it raised
decode_frame ==
  /\ pc = "decode"
  /\ out' = process_frame(frame).out
  /\ exc' = IF process_frame(frame).raised THEN IndexError ELSE NoExc
  /\ pc' = "decoded"
  /\ UNCHANGED <<top, hwVars, cfgVars, gseVars, rfVars, frame>>
  /\ UNCHANGED sndVars

DecodeNext == decode_frame

DecodeSpec == DecodeInit /\ [][DecodeNext]_vars

(* ---------------- one polling tick on any window ----------------------- *)
\* payloads of 28 bytes: all ones, all zeros, and sensor data whose fields
\* hold their extreme values under several enable and validity bits
TickPayloads ==
  {[i \in 1..28 |-> 255], Zeros(28)}
    \cup {SensorPayload(cm, 255, s, g, a, 255, 65535, 0, 32896) \o Zeros(6) :
            cm \in {0, 2, 4, 8, 16, 31}, s \in 0..3, g \in {0, 255}, a \in {0, 65535}}

\* the 32 bytes at register 0: any declared size, each identifier
TickWindows ==
  {<<sz, 0, 0, id>> \o p :
     sz \in {0, 10, 30, 255},
     id \in {SW_SENSOR_DATA, SW_SYSTEM_STATUS, SW_FW_VERSION, SW_REQUEST_MSG},
     p \in TickPayloads}

\* main has configured the sensor and returned; the sensor holds a window
TickInit ==
  /\ SoundStart
  /\ pc = "idle"
  /\ top = "none"
  /\ devFrame \in {Some(w) : w \in TickWindows}
  /\ configured = TRUE
  /\ pin_rst = 1
  /\ pin_xfer = XFER_INPUT
  /\ rstLowMs = RESET_LOW_MS
  /\ rstHighMs = RESET_WAIT_MS
  /\ cfgStep = 0
  /\ cfgLog = <<>>
  /\ gseCmd = 0
  /\ gseTries = 0
  /\ gseSleeps = 0
  /\ gseChecks = 0
  /\ gseReads = 0
  /\ gseRet = FALSE
  /\ gseCaller = "none"
  /\ data = None
  /\ rfCaller = "none"
  /\ rx = None
  /\ frame = None
  /\ out = <<>>
  /\ exc = NoExc

\* frame = read_frame_raw(); process_frame(frame), tick after tick
TickNext ==
  \/ call_poll
  \/ rf_check \/ rf_drive \/ rf_read \/ rf_release \/ rf_input \/ rf_exit
  \/ poll_decode \/ poll_exit

TickSpec == TickInit /\ [][TickNext]_vars

(* ---------------- sounds.py: the command loop, 425-483 ----------------- *)
\* a command line as cmd.split() cuts it, upper-cased by the reader; the
\* empty sequence is no command (None, or an empty line).  The optional
\* weight and name of MIX are not drawn: the weight is its default 0.5.
SoundCommands ==
  { <<>>, <<"MIX", "HAPPY", "SAD">>, <<"MIX", "SAD", "TIRED">>,
    <<"MIX", "HAPPY", "NOPE">>, <<"MIX", "HAPPY">>, <<"SAVE">>, <<"RANDOM">>,
    <<"HAPPY">>, <<"TALK">>, <<"POSITIVE">>, <<"HAPPY_SAD">> }

\* categories = sorted(list(set(e.category for e in emotions))), once
Categories == {BaseEmotions[i].category : i \in 1..Len(BaseEmotions)}

\* Python's seq[i], a negative i counting from the end
PyIndex(seq, i) == IF i < 0 THEN seq[Len(seq) + i + 1] ELSE seq[i + 1]

\* the emotion of that name in the list (the last one, as the loop of
\* create_mixed_emotion leaves it), or Unbound
FindEmotion(name) ==
  LET hits == {i \in 1..Len(emotions) : emotions[i].name = name}
  IN  IF hits = {} THEN Unbound
      ELSE emotions[CHOOSE i \in hits : \A j \in hits : j <= i]

\* emotion1.mix_with(emotion2, 0.5, None): name and category
mix_with(e1, e2) ==
  Emotion(e1.name \o "_" \o e2.name,
          IF e1.category = e2.category THEN e1.category ELSE "mixed")

\* create_mixed_emotion(name1, name2, 0.5, None): the mix, or Unbound (None)
create_mixed_emotion(name1, name2) ==
  IF FindEmotion(name1) # Unbound /\ FindEmotion(name2) # Unbound
  THEN mix_with(FindEmotion(name1), FindEmotion(name2))
  ELSE Unbound

\* the 0-based index of the first emotion of that name, or -1 for None
NameIndex(name) ==
  LET hits == {i \in 1..Len(emotions) : emotions[i].name = name}
  IN  IF hits = {} THEN -1
      ELSE (CHOOSE i \in hits : \A j \in hits : i <= j) - 1

\* cmd = read_command_nonblocking() and the if/elif chain on it
snd_command ==
  /\ sndPc = "command"
  /\ \E parts \in SoundCommands :
       /\ (parts = <<"SAVE">>) => Len(emotions) < Len(BaseEmotions) + MaxSaved
       /\ IF Len(parts) >= 2 /\ parts[1] = "MIX"
          THEN IF Len(parts) >= 3 /\ create_mixed_emotion(parts[2], parts[3]) # Unbound
               THEN /\ temp_emotion' = create_mixed_emotion(parts[2], parts[3])
                    /\ currentEmotion' = -2
                    /\ emotions' = emotions
               ELSE UNCHANGED <<temp_emotion, currentEmotion, emotions>>
          ELSE IF parts = <<"SAVE">> /\ currentEmotion = -2 /\ temp_emotion # Unbound
          THEN /\ emotions' = Append(emotions, temp_emotion)
               /\ currentEmotion' = Len(emotions)
               /\ temp_emotion' = temp_emotion
          ELSE IF parts = <<"RANDOM">>
          THEN /\ currentEmotion' = -1
               /\ UNCHANGED <<temp_emotion, emotions>>
          ELSE IF Len(parts) = 1 /\ parts[1] \in Categories
          THEN /\ \E i \in {k \in 1..Len(emotions) : emotions[k].category = parts[1]} :
                    currentEmotion' = i - 1
               /\ UNCHANGED <<temp_emotion, emotions>>
          ELSE IF Len(parts) = 1 /\ NameIndex(parts[1]) # -1
          THEN /\ currentEmotion' = NameIndex(parts[1])
               /\ UNCHANGED <<temp_emotion, emotions>>
          ELSE UNCHANGED <<temp_emotion, currentEmotion, emotions>>
  /\ sndPc' = "play"
  /\ UNCHANGED <<played, skyVars>>

\* emo_idx = currentEmotion if currentEmotion != -1 else random.randint(...)
\* play_emotion(emotions[emo_idx])
snd_play ==
  /\ sndPc = "play"
  /\ \E r \in 0..(Len(emotions) - 1) :
       LET emo_idx == IF currentEmotion # -1 THEN currentEmotion ELSE r
       IN  played' = PyIndex(emotions, emo_idx)
  /\ sndPc' = "command"
  /\ UNCHANGED <<emotions, currentEmotion, temp_emotion, skyVars>>

SoundNext == snd_command \/ snd_play

\* sounds.py run as a script; the sensor driver is not running
SoundSpec == Init /\ [][SoundNext]_vars

(* ======================= properties ==================================== *)
\* the host is inside get_status_expect (or in the read it has called)
InGse == gseCaller # "none"

\* C1: read_frame_raw never exits with the transfer pin left as an output:
\* at its exit, by return or by the bus error of the read, the pin is an
\* input with pull-up again; the pin is an output only between the freeze
\* and the end of the finally clause.
C1_ReleasedOnEveryExit ==
  /\ pc = "rf_exit" => pin_xfer = [mode |-> "IN", pull |-> "UP", out |-> 1]
  /\ pin_xfer.mode = "OUT" => pc \in {"rf_read", "rf_release", "rf_input"}

\* read_frame_raw is at its exit with the bus error of a failed read
C1_Witness ==
  /\ pc = "rf_exit"
  /\ exc.type = "OSError"
  /\ pin_xfer.mode = "IN"
  /\ pin_xfer.pull = "UP"

\* C2: called with the transfer line high, read_frame_raw goes straight to
\* its exit returning None: no freeze, no bus read, the pin and the
\* sensor's frame untouched, nothing raised.
C2_NoFrameUnlessAsserted ==
  [][(pc = "rf_check" /\ XferValue # 0 /\ pc' # pc)
       => /\ pc' = "rf_exit"
          /\ rx' = None
          /\ exc' = exc
          /\ UNCHANGED <<pin_xfer, pin_rst, devFrame, data, frame, out>>]_vars

\* read_frame_raw has returned None with the line high and nothing pending
C2_Witness ==
  /\ pc = "rf_exit"
  /\ rx = None
  /\ exc.type = ""
  /\ ~devFrame.some
  /\ pin_xfer.mode = "IN"

\* C3: the 32-byte read is made with the host driving the line low, and a
\* block write, a tick of the wait, a sampling of the line and the decoding
\* of a frame are made with the pin an input with pull-up.
C3_LineOwnedOnlyAroundRead ==
  /\ pc = "rf_read" => (pin_xfer.mode = "OUT" /\ pin_xfer.out = 0)
  /\ pc \in {"cfg_write", "cfg_wait", "gse_loop", "gse_check", "gse_test",
             "rf_check", "poll_decode", "hr_low", "hr_high"}
       => (pin_xfer.mode = "IN" /\ pin_xfer.pull = "UP")

\* a frame read during the configuration handshake, line frozen
C3_Witness ==
  /\ top = "main"
  /\ pc = "rf_read"
  /\ pin_xfer.mode = "OUT"
  /\ pin_xfer.out = 0
  /\ devFrame.some

\* C4: a wait in which no frame read is the acknowledgement returns False
\* after exactly tries attempts, each one sleep then one sampling of the
\* line; no attempt is made beyond tries.
C4_FailureAfterExactlyTries ==
  /\ InGse => /\ gseSleeps <= gseTries
              /\ gseChecks <= gseSleeps
              /\ gseSleeps <= gseChecks + 1
              /\ gseReads <= gseChecks
  /\ (pc = "gse_exit" /\ exc.type = ""
        /\ ~(data.some /\ data.bytes[4] = 21 /\ data.bytes[5] = gseCmd))
       => /\ gseRet = FALSE
          /\ gseSleeps = gseTries
          /\ gseChecks = gseTries
  /\ (pc = "gse_exit" /\ exc.type = "" /\ gseRet = FALSE)
       => (gseSleeps = gseTries /\ gseChecks = gseTries)

\* the default budget of 10 is exhausted with frames read, none matching
C4_Witness ==
  /\ pc = "gse_exit"
  /\ exc.type = ""
  /\ gseRet = FALSE
  /\ gseTries = 10
  /\ gseSleeps = 10
  /\ gseChecks = 10
  /\ gseReads >= 2

\* C5: get_status_expect returns True exactly when the frame it has just
\* read has identifier 0x15 and first payload byte cmd_id; that happens
\* within tries attempts, and once such a frame is read the function only
\* tests it and returns: no further sleep, sampling or read.
C5_SuccessIffFirstMatch ==
  /\ (pc = "gse_exit" /\ exc.type = "")
       => (gseRet <=> (data.some /\ data.bytes[4] = 21 /\ data.bytes[5] = gseCmd))
  /\ (pc = "gse_exit" /\ gseRet)
       => (gseSleeps >= 1 /\ gseSleeps <= gseTries /\ gseChecks = gseSleeps
           /\ gseReads >= 1 /\ exc.type = "")
  /\ (InGse /\ data.some /\ data.bytes[4] = 21 /\ data.bytes[5] = gseCmd)
       => pc \in {"gse_test", "gse_exit"}
  /\ (InGse /\ gseRet) => pc = "gse_exit"

\* the acknowledgement arrives at a later attempt, after another frame
C5_Witness ==
  /\ pc = "gse_exit"
  /\ gseRet
  /\ gseSleeps >= 2
  /\ gseReads >= 2
  /\ data.bytes[4] = 21
  /\ data.bytes[5] = gseCmd

\* C6: configure_runtime issues its writes in the order air-wheel (0x90),
\* gestures (0x85), data outputs (0xA0), auto-calibration (0x80), each to
\* register 0x10 with its two arguments, each followed by one matching
\* acknowledgement before the next write; a normal return has made exactly
\* four writes and seen four acknowledgements, alternating.
C6_WritesAndAcksAlternate ==
  /\ Len(cfgLog) <= 8
  /\ \A i \in 1..Len(cfgLog) :
        LET e == cfgLog[i]
            k == (i + 1) \div 2
        IN  IF i % 2 = 1
            THEN /\ e.op = "write"
                 /\ e.reg = 16
                 /\ Len(e.data) = 15
                 /\ e.data[3] = 162
                 /\ e.data[4] = <<144, 133, 160, 128>>[k]
                 /\ e.data[8] = <<32, 127, 31, 0>>[k]
                 /\ e.data[12] = <<32, 127, 31, 31>>[k]
            ELSE /\ e.op = "ack"
                 /\ e.data = <<21, 162>>
  /\ pc = "cfg_write" => Len(cfgLog) = 2 * (cfgStep - 1)
  /\ (pc = "cfg_exit" /\ exc.type = "") => Len(cfgLog) = 8
  /\ pc = "main_polling" => Len(cfgLog) = 8

\* configure_runtime returns normally after four writes and four acks
C6_Witness ==
  /\ pc = "cfg_exit"
  /\ exc.type = ""
  /\ Len(cfgLog) = 8
  /\ cfgLog[7].data[4] = 128
  /\ cfgLog[8].op = "ack"

\* C7: when the wait of step k returns False, configure_runtime raises the
\* RuntimeError whose message names step k, a different message for each
\* step, having issued the writes of steps 1..k only; the error leaves main
\* with no further write.
C7_TimeoutIdentifiesStep ==
  /\ []((pc \in {"cfg_exit", "main_exit"} /\ exc.type = "RuntimeError")
          => LET k == (Len(cfgLog) + 1) \div 2
             IN  /\ Len(cfgLog) % 2 = 1
                 /\ k = cfgStep
                 /\ cfgLog[Len(cfgLog)].op = "write"
                 /\ exc.msg = <<"SET_RUNTIME (AirWheel) no status",
                                "SET_RUNTIME (gestures) no status",
                                "SET_RUNTIME (data outputs) no status",
                                "SET_RUNTIME (autocal off) no status">>[k])
  /\ [][(pc = "cfg_test" /\ ~gseRet /\ pc' # pc)
          => /\ pc' = "cfg_exit"
             /\ exc'.type = "RuntimeError"
             /\ cfgLog' = cfgLog
             /\ cfgStep' = cfgStep]_vars
  /\ [][(pc = "cfg_exit" /\ exc.type = "RuntimeError" /\ pc' # pc)
          => (pc' = "main_exit" /\ exc' = exc /\ cfgLog' = cfgLog)]_vars

\* the wait of step 3 has run out: the error names the data outputs step
C7_Witness ==
  /\ pc = "main_exit"
  /\ exc.type = "RuntimeError"
  /\ exc.msg = "SET_RUNTIME (data outputs) no status"
  /\ Len(cfgLog) = 5

\* C8 as stated: once configured, a polling tick surfaces no error at all
C8_PollingNeverRaises ==
  (top = "poll" /\ configured) => exc.type = ""

\* C8, amended: once configured, the only error a polling tick surfaces is
\* the bus error of the 32-byte read; it leaves the tick with the line
\* released and nothing decoded.  Decoding a frame that was read raises
\* nothing.
C8_PollingRaisesOnlyBusError ==
  (top = "poll" /\ configured /\ exc.type # "")
    => /\ exc.type = "OSError"
       /\ pc \in {"rf_release", "rf_input", "rf_exit", "poll_exit"}
       /\ pc \in {"rf_exit", "poll_exit"} => (pin_xfer.mode = "IN" /\ pin_xfer.pull = "UP")
       /\ frame = None
       /\ out = <<>>

\* a configured tick ends with the bus error of its read
C8_Witness ==
  /\ top = "poll"
  /\ configured
  /\ pc = "poll_exit"
  /\ exc.type = "OSError"
  /\ pin_xfer.mode = "IN"

\* C9: after a successful configuration, a frame the sensor holds ready
\* (line asserted until it is read) is eventually read and handed to
\* process_frame.
C9_AssertedFrameEventuallyDecoded ==
  (configured /\ devFrame.some) ~> (pc \in {"rf_read", "poll_decode"})

\* C10: hw_reset holds reset low for at least 100 ms, releases it and
\* waits at least 500 ms before it returns; in main every bus write and
\* bus read comes after that, with reset high.
C10_ResetTiming ==
  /\ pin_rst = 0 => pc \in {"hr_sleep_low", "hr_high"}
  /\ pc = "hr_high" => rstLowMs >= 100
  /\ pc = "hr_exit" => (pin_rst = 1 /\ rstLowMs >= 100 /\ rstHighMs >= 500)
  /\ (top = "main" /\ pc \in {"cfg_write", "rf_read"})
       => (pin_rst = 1 /\ rstLowMs >= 100 /\ rstHighMs >= 500)

\* main's first bus write, 500 ms after the release of reset
C10_Witness ==
  /\ top = "main"
  /\ pc = "cfg_write"
  /\ cfgStep = 1
  /\ pin_rst = 1
  /\ rstLowMs = 100
  /\ rstHighMs = 500

\* C22: the decoder keeps no state.  Whatever was configured, waited for
\* or decoded before, a frame handed to process_frame prints the lines its
\* own bytes determine; the call leaves the frame as it was and changes
\* nothing but what it prints.
C22_DecoderStateless ==
  /\ []((pc = "poll_exit" /\ frame.some)
          => /\ exc = NoExc
             /\ out = IF frame.bytes[4] = 145 /\ frame.bytes[5] = 31
                      THEN << Ev("XYZ", "", "", "", <<5020, 10000, 312>>),
                              Ev("GESTURE", "garbage", "", "", <<>>),
                              Ev("TOUCH", "doubletap", "center", "", <<>>),
                              Ev("AIRWHEEL", "", "", "", <<16>>) >>
                      ELSE IF frame.bytes[4] = 145
                      THEN << Ev("GESTURE", "flick", "east", "west", <<>>) >>
                      ELSE IF frame.bytes[4] = 131
                      THEN << Ev("FW", "", "", "", <<49, 46, 48>>) >>
                      ELSE <<>>)
  /\ [][(pc = "poll_decode" /\ pc' # pc)
          => /\ frame' = frame
             /\ UNCHANGED <<top, hwVars, cfgVars, gseVars, rfVars, sndVars>>]_vars

\* the frame holding all four fields, decoded in full by a tick that
\* follows a failed configuration
C22_Witness ==
  /\ pc = "poll_exit"
  /\ ~configured
  /\ frame.some
  /\ frame.bytes[4] = 145
  /\ frame.bytes[5] = 31
  /\ Len(out) = 4

(* ---------------- the decoder: DecodeSpec ------------------------------ *)
\* C11: process_frame called with no frame, or with a frame of 0, 1, 2 or
\* 3 bytes of any contents, prints nothing and raises nothing.
C11_ShortFrameSilent ==
  (pc = "decoded" /\ (~frame.some \/ Len(frame.bytes) < 4))
    => (out = <<>> /\ exc = NoExc)

\* three bytes, each the sensor-data identifier, decoded to nothing
C11_Witness ==
  /\ pc = "decoded"
  /\ frame.some
  /\ frame.bytes = <<145, 145, 145>>
  /\ out = <<>>
  /\ exc = NoExc

\* the call has ended and its argument was a sensor-data frame
DecodedSensor ==
  pc = "decoded" /\ frame.some /\ Len(frame.bytes) = FRAME_LEN
    /\ frame.bytes[4] = SW_SENSOR_DATA

\* payload[i] of the frame decoded: payload = frame[4:]
PayloadByte(i) == frame.bytes[i + 5]

\* bit b of the byte or word n
BitSet(n, b) == (n \div (2 ^ b)) % 2 = 1

\* the lines of one kind among those printed
OutOfType(t) == SelectSeq(out, LAMBDA e : e.type = t)

\* C12: with the TOUCH bit of the configmask set, a sensor-data payload
\* prints at most one touch line, whatever its 16-bit action field; when one
\* of bits 14..0 is set the line names TOUCH_ACTIONS[14 - b], b the highest
\* of them (bit 14 doubletap center ... bit 0 touch south).
C12_TouchHighestBitWins ==
  (DecodedSensor /\ BitSet(PayloadByte(0), 2))
    => LET action == (PayloadByte(11) * 256) + PayloadByte(10)
           low == {b \in 0..14 : BitSet(action, b)}
           touches == OutOfType("TOUCH")
       IN  /\ Len(touches) <= 1
           /\ low # {} =>
                LET b == CHOOSE x \in low : \A y \in low : y <= x
                    idx == 14 - b
                IN  /\ Len(touches) = 1
                    /\ touches[1].s1 = <<"doubletap", "tap", "touch">>[(idx \div 5) + 1]
                    /\ touches[1].s2 =
                         <<"center", "east", "north", "west", "south">>[(idx % 5) + 1]
                    /\ touches[1].nums = <<>>

\* bits 14, 11 and 3 set together: doubletap center, alone
C12_Witness ==
  /\ DecodedSensor
  /\ PayloadByte(0) = 4
  /\ PayloadByte(10) = 8
  /\ PayloadByte(11) = 72
  /\ Len(out) = 1
  /\ out[1].type = "TOUCH"
  /\ out[1].s1 = "doubletap"
  /\ out[1].s2 = "center"

\* C13: a sensor-data payload prints a gesture line exactly when the
\* GESTURE bit of the configmask is set and payload[6] is not zero; bytes
\* 1..7 print garbage, flick west->east, flick east->west, flick
\* south->north, flick north->south, circle clockwise, circle
\* counter-clockwise.
C13_GestureGateAndNames ==
  DecodedSensor
    => LET gid == PayloadByte(6)
           enabled == BitSet(PayloadByte(0), 1)
           gestures == OutOfType("GESTURE")
           names == << <<"garbage", "", "">>,
                       <<"flick", "west", "east">>,
                       <<"flick", "east", "west">>,
                       <<"flick", "south", "north">>,
                       <<"flick", "north", "south">>,
                       <<"circle", "clockwise", "">>,
                       <<"circle", "counter-clockwise", "">> >>
       IN  /\ Len(gestures) = (IF enabled /\ gid # 0 THEN 1 ELSE 0)
           /\ (enabled /\ gid \in 1..7)
                => /\ <<gestures[1].s1, gestures[1].s2, gestures[1].s3>> = names[gid]
                   /\ gestures[1].nums = <<>>

\* gesture byte 3, gestures enabled: flick east->west
C13_Witness ==
  /\ DecodedSensor
  /\ PayloadByte(0) = 2
  /\ PayloadByte(6) = 3
  /\ Len(out) = 1
  /\ out[1].type = "GESTURE"
  /\ out[1].s1 = "flick"
  /\ out[1].s2 = "east"
  /\ out[1].s3 = "west"

\* C14: a sensor-data payload prints a position line exactly when bit 4
\* (XYZ) of the configmask and bit 0 (POSITION_VALID) of payload[3] are both
\* set, whatever the other bits and the xyz bytes.
C14_PositionGate ==
  DecodedSensor
    => Len(OutOfType("XYZ")) =
         (IF BitSet(PayloadByte(0), 4) /\ BitSet(PayloadByte(3), 0) THEN 1 ELSE 0)

\* every enable bit set, every sysinfo bit but POSITION_VALID set: lines
\* are printed, none of them a position
C14_Witness ==
  /\ DecodedSensor
  /\ PayloadByte(0) = 31
  /\ PayloadByte(3) = 2
  /\ PayloadByte(17) = 128
  /\ out # <<>>
  /\ OutOfType("XYZ") = <<>>

\* C15: a sensor-data payload prints an air-wheel line exactly when bit 3
\* (AIRWHEEL) of the configmask and bit 1 (AIRWHEEL_VALID) of payload[3]
\* are both set, and the value printed is payload[14] itself.
C15_AirwheelGateAndValue ==
  DecodedSensor
    => LET wheel == OutOfType("AIRWHEEL")
       IN  IF BitSet(PayloadByte(0), 3) /\ BitSet(PayloadByte(3), 1)
           THEN Len(wheel) = 1 /\ wheel[1].nums = << PayloadByte(14) >>
           ELSE wheel = <<>>

\* rotation byte 255, enabled and valid, printed as 255
C15_Witness ==
  /\ DecodedSensor
  /\ PayloadByte(0) = 8
  /\ PayloadByte(3) = 2
  /\ PayloadByte(14) = 255
  /\ Len(out) = 1
  /\ out[1].type = "AIRWHEEL"
  /\ out[1].nums = <<255>>

\* C16: the lines a sensor-data frame prints are those of the four fields,
\* each under its own gate and none suppressed by another, in the order
\* position, gesture, touch, air-wheel.
C16_AllFieldsInOrder ==
  DecodedSensor
    => LET cm == PayloadByte(0)
           sysinfo == PayloadByte(3)
           action == (PayloadByte(11) * 256) + PayloadByte(10)
           position == BitSet(cm, 4) /\ BitSet(sysinfo, 0)
           gesture == BitSet(cm, 1) /\ PayloadByte(6) # 0
           touch == BitSet(cm, 2) /\ action % 32768 # 0
           wheel == BitSet(cm, 3) /\ BitSet(sysinfo, 1)
       IN  /\ exc = NoExc
           /\ [i \in 1..Len(out) |-> out[i].type] =
                (IF position THEN <<"XYZ">> ELSE <<>>)
                  \o (IF gesture THEN <<"GESTURE">> ELSE <<>>)
                  \o (IF touch THEN <<"TOUCH">> ELSE <<>>)
                  \o (IF wheel THEN <<"AIRWHEEL">> ELSE <<>>)

\* one frame holding a position, a gesture, a touch and an air-wheel value
C16_Witness ==
  /\ DecodedSensor
  /\ Len(out) = 4
  /\ out[1].type = "XYZ"
  /\ out[2].type = "GESTURE"
  /\ out[3].type = "TOUCH"
  /\ out[4].type = "AIRWHEEL"

\* the call has ended and its argument began with the 22 bytes of the
\* specification's end-to-end example
DecodedExample ==
  /\ pc = "decoded"
  /\ frame.some
  /\ Len(frame.bytes) = FRAME_LEN
  /\ SubSeq(frame.bytes, 1, 22) =
       <<30, 0, 0, 145, 31, 0, 0, 1, 0, 0, 0, 0, 0, 0, 16, 0,
         128, 128, 128, 128, 128, 128>>

\* C17 as stated: the example frame decodes to a position with x, y and z
\* each 0.5020, the gesture 'garbage' and the air-wheel value 0x10, and to
\* no touch.
C17_ExampleAsStated ==
  DecodedExample
    => out = << Ev("XYZ", "", "", "", <<5020, 5020, 5020>>),
                Ev("GESTURE", "garbage", "", "", <<>>),
                Ev("AIRWHEEL", "", "", "", <<16>>) >>

\* C17, amended: the example frame decodes to a position whose x is 0.5020
\* and whose y and z are the nearest ten-thousandths of frame bytes 22-23
\* and 24-25 over 65536, followed by the touch 'touch center'; it prints no
\* gesture and no air-wheel value, and raises nothing.
C17_ExampleDecoded ==
  DecodedExample
    => LET y_u == (frame.bytes[24] * 256) + frame.bytes[23]
           z_u == (frame.bytes[26] * 256) + frame.bytes[25]
           Near(n, u) == /\ 2 * ((n * 65536) - (u * 10000)) <= 65536
                         /\ 2 * ((u * 10000) - (n * 65536)) <= 65536
       IN  /\ exc = NoExc
           /\ Len(out) = 2
           /\ out[1].type = "XYZ"
           /\ out[1].nums[1] = 5020
           /\ Near(out[1].nums[2], y_u)
           /\ Near(out[1].nums[3], z_u)
           /\ out[2] = [type |-> "TOUCH", s1 |-> "touch", s2 |-> "center",
                        s3 |-> "", nums |-> <<>>]

\* the example continued with 0x80 bytes: x = y = z = 0.5020, touch center
C17_Witness ==
  /\ DecodedExample
  /\ SubSeq(frame.bytes, 23, 26) = <<128, 128, 128, 128>>
  /\ Len(out) = 2
  /\ out[1].nums = <<5020, 5020, 5020>>
  /\ out[2].type = "TOUCH"
  /\ out[2].s2 = "center"

\* the raw value of axis k (1 = x, 2 = y, 3 = z) in the frame decoded
RawAxis(k) == (PayloadByte(15 + (2 * k)) * 256) + PayloadByte(14 + (2 * k))

\* C18 as stated: every normalized value printed is below 1.0 (at most
\* 9999 ten-thousandths); raw 0 gives 0.0000 and raw 65535 gives 0.9999.
C18_NormalizeBelowOne ==
  DecodedSensor
    => \A i \in 1..Len(out) :
         out[i].type = "XYZ"
           => \A k \in 1..3 :
                /\ out[i].nums[k] \in 0..9999
                /\ RawAxis(k) = 0 => out[i].nums[k] = 0
                /\ RawAxis(k) = 65535 => out[i].nums[k] = 9999

\* C18, amended: every normalized value printed is between 0.0 and 1.0
\* inclusive and less than 0.0001 away from raw/65536; raw 0 gives 0.0000,
\* and the value is 1.0000 exactly for the raw values 65533..65535.
C18_NormalizeAtMostOne ==
  DecodedSensor
    => \A i \in 1..Len(out) :
         out[i].type = "XYZ"
           => \A k \in 1..3 :
                LET n == out[i].nums[k]
                    v == RawAxis(k)
                IN  /\ n \in 0..10000
                    /\ (n * 65536) - (v * 10000) < 65536
                    /\ (v * 10000) - (n * 65536) < 65536
                    /\ v = 0 => n = 0
                    /\ n = 10000 <=> v >= 65533

\* raw x = 65535 printed as 1.0000, raw y = 0 as 0.0000
C18_Witness ==
  /\ DecodedSensor
  /\ RawAxis(1) = 65535
  /\ RawAxis(2) = 0
  /\ Len(out) = 1
  /\ out[1].type = "XYZ"
  /\ out[1].nums[1] = 10000
  /\ out[1].nums[2] = 0

(* ---------------- the handshake: Spec ---------------------------------- *)
\* the frame get_status_expect has just read is not the acknowledgement
\* it waits for
ReadNoMatch ==
  /\ data.some
  /\ ~(data.bytes[4] = 21 /\ data.bytes[5] = gseCmd)

\* C19: a frame read by get_status_expect that is not the acknowledgement
\* is dropped: nothing is decoded or printed while the wait runs, the test
\* of such a frame leads back to the loop for the next attempt with the
\* log and the result untouched, the frame is gone when the wait has ended,
\* and what process_frame is later given is what a polling read returned.
C19_NonMatchingFrameDiscarded ==
  /\ [](InGse => (out = <<>> /\ frame = None /\ pc # "poll_decode"))
  /\ [](~InGse => data = None)
  /\ [](rfCaller = "none" => rx = None)
  /\ [][(pc = "gse_test" /\ ReadNoMatch /\ pc' # pc)
          => /\ pc' = "gse_loop"
             /\ gseRet' = FALSE
             /\ gseSleeps' = gseSleeps
             /\ cfgLog' = cfgLog
             /\ out' = <<>>
             /\ frame' = None]_vars
  /\ [][pc' = "poll_decode" /\ pc # pc' => (rfCaller = "poll" /\ frame' = rx)]_vars

\* a sensor-data frame read during the handshake, tested and dropped, with
\* attempts left
C19_Witness ==
  /\ pc = "gse_loop"
  /\ gseCaller = "cfg"
  /\ data.some
  /\ data.bytes[4] = 145
  /\ gseSleeps < gseTries
  /\ out = <<>>
  /\ frame = None

\* C20: during configuration a bus error of the read made by
\* get_status_expect is neither retried nor turned into a timeout.  While
\* it propagates no attempt, read or write is begun; it leaves
\* read_frame_raw, get_status_expect and configure_runtime in turn,
\* unchanged and not a RuntimeError, with the attempt count and the log of
\* writes as they were and the transfer pin an input with pull-up again.
C20_ReadErrorPropagates ==
  /\ [](exc.type = "OSError"
          => /\ pc \in {"rf_release", "rf_input", "rf_exit", "gse_exit",
                        "cfg_exit", "main_exit", "poll_exit"}
             /\ exc.type # "RuntimeError"
             /\ pc \in {"gse_exit", "cfg_exit", "main_exit"}
                  => pin_xfer = [mode |-> "IN", pull |-> "UP", out |-> 1])
  /\ [][(pc = "rf_exit" /\ gseCaller = "cfg" /\ exc.type = "OSError" /\ pc' # pc)
          => /\ pc' = "gse_exit"
             /\ exc' = exc
             /\ gseSleeps' = gseSleeps
             /\ cfgLog' = cfgLog
             /\ pin_xfer = [mode |-> "IN", pull |-> "UP", out |-> 1]]_vars
  /\ [][(pc = "gse_exit" /\ gseCaller = "cfg" /\ exc.type = "OSError" /\ pc' # pc)
          => /\ pc' = "cfg_exit"
             /\ exc' = exc
             /\ cfgLog' = cfgLog]_vars
  /\ [][(pc = "cfg_exit" /\ exc.type = "OSError" /\ pc' # pc)
          => /\ pc' = "main_exit"
             /\ exc' = exc
             /\ cfgLog' = cfgLog
             /\ ~configured']_vars

\* the read of the second step's wait has failed on its first attempt: the
\* error is leaving get_status_expect with nine attempts unused
C20_Witness ==
  /\ pc = "gse_exit"
  /\ gseCaller = "cfg"
  /\ cfgStep = 2
  /\ exc.type = "OSError"
  /\ gseSleeps = 1
  /\ gseTries = 10
  /\ gseRet = FALSE
  /\ pin_xfer.mode = "IN"

(* ---------------- the decoder, continued: DecodeSpec ------------------- *)
\* C21 as stated: every gesture line comes from a gesture byte in 1..7; a
\* byte in 8..255 prints no gesture line.
C21_OnlySevenCodes ==
  DecodedSensor
    => (OutOfType("GESTURE") # <<>> => PayloadByte(6) \in 1..7)

\* C21, amended: with GESTURE set, a gesture byte in 8..255 prints one
\* gesture line that carries the raw id and no tag; a line carries one of
\* the tags garbage, flick, circle exactly when the byte is in 1..7.
C21_UnknownIdReported ==
  (DecodedSensor /\ BitSet(PayloadByte(0), 1))
    => LET gid == PayloadByte(6)
           gestures == OutOfType("GESTURE")
       IN  /\ gid \in 8..255
                => gestures = << [type |-> "GESTURE", s1 |-> "id", s2 |-> "",
                                  s3 |-> "", nums |-> <<gid>>] >>
           /\ gid \in 1..7
                <=> (gestures # <<>>
                       /\ gestures[1].s1 \in {"garbage", "flick", "circle"})

\* gesture byte 200 with gestures enabled: the line GESTURE: id=200
C21_Witness ==
  /\ DecodedSensor
  /\ PayloadByte(0) = 2
  /\ PayloadByte(6) = 200
  /\ Len(out) = 1
  /\ out[1].type = "GESTURE"
  /\ out[1].s1 = "id"
  /\ out[1].nums = <<200>>

\* C24: bit 15 of the touch action field is never examined.  With TOUCH
\* set, an action whose low fifteen bits are clear prints no touch line
\* even when bit 15 is set; otherwise the line is the one the highest of
\* bits 14..0 selects, bit 15 set or not; and no line reports a raw bit
\* index.
C24_Bit15NeverExamined ==
  (DecodedSensor /\ BitSet(PayloadByte(0), 2))
    => LET action == (PayloadByte(11) * 256) + PayloadByte(10)
           low15 == action % 32768
           touches == OutOfType("TOUCH")
           TopBit(n) == CHOOSE b \in 0..14 :
                          (n \div (2 ^ b)) >= 1 /\ (n \div (2 ^ b)) < 2
           names == <<"doubletap", "tap", "touch">>
           places == <<"center", "east", "north", "west", "south">>
       IN  /\ low15 = 0 => touches = <<>>
           /\ low15 # 0
                => touches = << [type |-> "TOUCH",
                                 s1 |-> names[((14 - TopBit(low15)) \div 5) + 1],
                                 s2 |-> places[((14 - TopBit(low15)) % 5) + 1],
                                 s3 |-> "", nums |-> <<>>] >>
           /\ \A i \in 1..Len(touches) : touches[i].s1 # "bit"

\* the action 0x8000, touch enabled: nothing printed
C24_Witness ==
  /\ DecodedSensor
  /\ PayloadByte(0) = 4
  /\ PayloadByte(10) = 0
  /\ PayloadByte(11) = 128
  /\ out = <<>>
  /\ exc = NoExc

(* ---------------- a polling tick on any window: TickSpec --------------- *)
\* C25: what a successful read_frame_raw returns, and so what process_frame
\* is given, is 32 bytes long whatever size the frame's first byte
\* declares, and process_frame raises nothing on it whatever its contents.
C25_WindowAlwaysDecodes ==
  /\ rx.some => Len(rx.bytes) = 32
  /\ frame.some => Len(frame.bytes) = 32
  /\ (pc = "poll_exit" /\ frame.some) => exc = NoExc

\* a sensor-data frame that declares 10 bytes: read as 32, and all four
\* fields, which lie beyond byte 10, decoded
C25_Witness ==
  /\ pc = "poll_exit"
  /\ frame.some
  /\ Len(frame.bytes) = 32
  /\ frame.bytes[1] = 10
  /\ frame.bytes[4] = 145
  /\ Len(out) = 4
  /\ exc = NoExc

(* ---------------- the sound tool: SoundSpec ---------------------------- *)
\* C23: once a MIX command has created a mixed emotion, each iteration of
\* the loop plays that temporary emotion until another command changes the
\* mode.
C23_MixedEmotionPlayed ==
  (sndPc = "command" /\ currentEmotion = -2) => played = temp_emotion

====
